---- MODULE Spec2Model ----
(***************************************************************************)
(* Model of the tflint rule module_circular_dependency                     *)
(* (rules/module_circular_dependency.go): reference extraction from        *)
(* expression trees, construction of the dependency list, detection of     *)
(* direct and indirect circular dependencies, and reporting through the    *)
(* runner.                                                                 *)
(***************************************************************************)
EXTENDS Integers, Sequences, FiniteSets, TLC

VARIABLES pc, modules, dependencies, seenDeps, line, circularDeps, cycles,
          emitIdx, emitted, err, expr, depth, references

vars == <<pc, modules, dependencies, seenDeps, line, circularDeps, cycles,
          emitIdx, emitted, err, expr, depth, references>>

(***************************************************************************)
(* Bounds of the model.                                                    *)
(***************************************************************************)
\* largest number of dependencies collected in one run
MaxDeps == 3
\* largest nesting depth of a generated expression tree
MaxDepth == 2
\* largest number of dependencies added to the cycles of a generated graph
MaxExtra == 2

(***************************************************************************)
(* Module names.  Go compares strings byte by byte, so every name comes    *)
(* with its bytes and the order is computed from them.                     *)
(***************************************************************************)
Names == {"a", "aa", "ab", "b"}

\* the module names of the generated graphs: enough for two disjoint cycles
GraphNames == Names \cup {"ba", "bb"}

NameBytes == [n \in GraphNames |->
                CASE n = "a"  -> <<97>>
                  [] n = "aa" -> <<97, 97>>
                  [] n = "ab" -> <<97, 98>>
                  [] n = "b"  -> <<98>>
                  [] n = "ba" -> <<98, 97>>
                  [] n = "bb" -> <<98, 98>>]

\* Go's s < t on strings: lexicographic on bytes, a proper prefix is smaller
StrLess(s, t) ==
    LET x == NameBytes[s]
        y == NameBytes[t]
    IN  \E i \in 1..(Len(y)) :
            /\ \A j \in 1..(i - 1) : j <= Len(x) /\ x[j] = y[j]
            /\ \/ i = Len(x) + 1
               \/ i <= Len(x) /\ x[i] < y[i]

RECURSIVE InsertSorted(_, _)
InsertSorted(s, sorted) ==
    IF sorted = <<>> THEN <<s>>
    ELSE IF StrLess(s, Head(sorted)) THEN <<s>> \o sorted
    ELSE <<Head(sorted)>> \o InsertSorted(s, Tail(sorted))

RECURSIVE SortStringsRec(_)
SortStringsRec(strs) ==
    IF strs = <<>> THEN <<>>
    ELSE InsertSorted(Head(strs), SortStringsRec(Tail(strs)))

\* a plausible slip: the slice is left in insertion order
SortStringsUnsorted(strs) == strs

\* sort.Strings
SortStrings(strs) == SortStringsRec(strs)

RECURSIVE SetToSeq(_)
SetToSeq(S) == IF S = {} THEN <<>>
               ELSE LET x == CHOOSE y \in S : TRUE
                    IN  <<x>> \o SetToSeq(S \ {x})

(***************************************************************************)
(* hcl.Range, reduced to the file name and the start line.                 *)
(***************************************************************************)
FileName == "main.tf"
ZeroRange == [Filename |-> "", Line |-> 0]
AttrRange(l) == [Filename |-> FileName, Line |-> l]

(***************************************************************************)
(* The two arrows of the keys, paths and messages, U+2192 and U+2194, are  *)
(* written in ASCII: TLC stores the characters of a string as bytes.  No   *)
(* module name contains either of them.                                    *)
(***************************************************************************)
RightArrow == "=>"
LeftRightArrow == "<=>"

(***************************************************************************)
(* normalizeCycle: rotate to the smallest name, join with the separator.   *)
(***************************************************************************)
\* index of the smallest name, the first one on ties
MinIndex(cycle) ==
    CHOOSE i \in 1..Len(cycle) :
        /\ \A j \in 1..Len(cycle) : ~StrLess(cycle[j], cycle[i])
        /\ \A j \in 1..(i - 1) : StrLess(cycle[i], cycle[j])

Rotate(cycle, minIndex) ==
    [i \in 1..Len(cycle) |-> cycle[((minIndex - 1 + i - 1) % Len(cycle)) + 1]]

\* a plausible slip: the names are joined with no separator between them
RECURSIVE JoinKeyNoSeparator(_)
JoinKeyNoSeparator(normalized) ==
    IF normalized = <<>> THEN ""
    ELSE Head(normalized) \o JoinKeyNoSeparator(Tail(normalized))

RECURSIVE JoinKey(_)
JoinKey(normalized) ==
    IF normalized = <<>> THEN ""
    ELSE Head(normalized) \o RightArrow \o JoinKey(Tail(normalized))

\* a plausible slip: the names are joined without rotating first
normalizeCycleNoRotate(cycle) ==
    IF Len(cycle) = 0 THEN "" ELSE JoinKey(cycle)

normalizeCycle(cycle) ==
    IF Len(cycle) = 0 THEN ""
    ELSE JoinKey(Rotate(cycle, MinIndex(cycle)))

(***************************************************************************)
(* The dependency map of detectCircularDependencies.                       *)
(***************************************************************************)
RECURSIVE DepsFrom(_, _)
DepsFrom(deps, from) ==
    IF deps = <<>> THEN <<>>
    ELSE (IF Head(deps).From = from THEN <<Head(deps).To>> ELSE <<>>)
         \o DepsFrom(Tail(deps), from)

\* depMap after the sort of every adjacency list
DepMap(deps) ==
    [from \in {deps[i].From : i \in 1..Len(deps)} |->
        SortStrings(DepsFrom(deps, from))]

\* depRangeMap[from][to], the zero Range when the entry is missing;
\* a later dependency with the same pair overwrites an earlier one
DepRange(deps, from, to) ==
    LET hits == {i \in 1..Len(deps) : deps[i].From = from /\ deps[i].To = to}
    IN  IF hits = {} THEN ZeroRange
        ELSE deps[CHOOSE i \in hits : \A j \in hits : j <= i].Range

RangeToUse(deps, from, to) ==
    IF DepRange(deps, from, to).Filename # "" THEN DepRange(deps, from, to)
    ELSE ZeroRange

\* the sorted module names: the keys of depMap
SortedModules(depMap) == SortStrings(SetToSeq(DOMAIN depMap))

\* depMap[module], nil (empty) for a missing key
Adjacent(depMap, module) ==
    IF module \in DOMAIN depMap THEN depMap[module] ELSE <<>>

(***************************************************************************)
(* findCycle: depth-first search with visited, recStack and path.          *)
(* The result carries the mutated visited, recStack and path.              *)
(***************************************************************************)
CycleStart(path, module) ==
    IF \E i \in 1..Len(path) : path[i] = module
    THEN CHOOSE i \in 1..Len(path) :
            path[i] = module /\ \A j \in 1..(i - 1) : path[j] # module
    ELSE 0

RECURSIVE findCycleFrom(_, _, _)
RECURSIVE findCycleLoop(_, _, _, _)

findCycleFrom(module, depMap, st) ==
    IF module \in st.recStack
    THEN IF CycleStart(st.path, module) >= 1
         THEN [st EXCEPT !.found = TRUE,
                         !.cycle = SubSeq(st.path, CycleStart(st.path, module),
                                          Len(st.path))]
         ELSE st
    ELSE IF module \in st.visited THEN st
    ELSE findCycleLoop(module, depMap, Adjacent(depMap, module),
                       [st EXCEPT !.visited = @ \cup {module},
                                  !.recStack = @ \cup {module},
                                  !.path = Append(@, module)])

findCycleLoop(module, depMap, rest, st) ==
    IF rest = <<>>
    THEN [st EXCEPT !.recStack = @ \ {module},
                    !.path = SubSeq(@, 1, Len(@) - 1)]
    ELSE LET r == findCycleFrom(Head(rest), depMap, st)
         IN  IF r.found THEN r
             ELSE findCycleLoop(module, depMap, Tail(rest), r)

FreshSearch == [found |-> FALSE, cycle |-> <<>>, visited |-> {},
                recStack |-> {}, path |-> <<>>]

\* a plausible slip: visited is tested before recStack, so a module on the
\* recursion stack is taken for an explored one
RECURSIVE findCycleVisitedFirstFrom(_, _, _)
RECURSIVE findCycleVisitedFirstLoop(_, _, _, _)
findCycleVisitedFirstFrom(module, depMap, st) ==
    IF module \in st.visited THEN st
    ELSE IF module \in st.recStack
    THEN IF CycleStart(st.path, module) >= 1
         THEN [st EXCEPT !.found = TRUE,
                         !.cycle = SubSeq(st.path, CycleStart(st.path, module),
                                          Len(st.path))]
         ELSE st
    ELSE findCycleVisitedFirstLoop(module, depMap, Adjacent(depMap, module),
                       [st EXCEPT !.visited = @ \cup {module},
                                  !.recStack = @ \cup {module},
                                  !.path = Append(@, module)])
findCycleVisitedFirstLoop(module, depMap, rest, st) ==
    IF rest = <<>>
    THEN [st EXCEPT !.recStack = @ \ {module},
                    !.path = SubSeq(@, 1, Len(@) - 1)]
    ELSE LET r == findCycleVisitedFirstFrom(Head(rest), depMap, st)
         IN  IF r.found THEN r
             ELSE findCycleVisitedFirstLoop(module, depMap, Tail(rest), r)
findCycleVisitedFirst(module, depMap) ==
    findCycleVisitedFirstFrom(module, depMap, FreshSearch)

\* findCycle called with fresh visited, recStack and path
findCycle(module, depMap) == findCycleFrom(module, depMap, FreshSearch)

(***************************************************************************)
(* detectCircularDependencies.  The accumulator holds reportedCycles,      *)
(* circularDeps and, in cycles, the module list of every cycle that was    *)
(* marked as reported.                                                     *)
(***************************************************************************)
\* a plausible slip: the comparison with the module is dropped
IsReverseDepOfAny(reverseDep, module) == TRUE

\* reverseDep == module
IsReverseDep(reverseDep, module) == reverseDep = module

DirectFinding(deps, module, dep) ==
    [ModuleA |-> module, ModuleB |-> dep,
     Range |-> RangeToUse(deps, module, dep), CyclePath |-> ""]

\* a plausible slip: the key of the pair is not added to reportedCycles
DirectReportUnrecorded(deps, module, dep, acc) ==
    LET cycleKey == normalizeCycle(<<module, dep>>)
    IN  IF cycleKey \in acc.reportedCycles THEN acc
        ELSE [reportedCycles |-> acc.reportedCycles,
              circularDeps |-> Append(acc.circularDeps,
                                      DirectFinding(deps, module, dep)),
              cycles |-> Append(acc.cycles, <<module, dep>>)]

\* the body of the innermost loop of the first pass
DirectReport(deps, module, dep, acc) ==
    LET cycleKey == normalizeCycle(<<module, dep>>)
    IN  IF cycleKey \in acc.reportedCycles THEN acc
        ELSE [reportedCycles |-> acc.reportedCycles \cup {cycleKey},
              circularDeps |-> Append(acc.circularDeps,
                                      DirectFinding(deps, module, dep)),
              cycles |-> Append(acc.cycles, <<module, dep>>)]

RECURSIVE DirectOverReverseDeps(_, _, _, _, _)
DirectOverReverseDeps(deps, module, dep, reverseDeps, acc) ==
    IF reverseDeps = <<>> THEN acc
    ELSE DirectOverReverseDeps(deps, module, dep, Tail(reverseDeps),
            IF IsReverseDep(Head(reverseDeps), module)
            THEN DirectReport(deps, module, dep, acc)
            ELSE acc)

RECURSIVE DirectOverDeps(_, _, _, _, _)
DirectOverDeps(deps, depMap, module, rest, acc) ==
    IF rest = <<>> THEN acc
    ELSE DirectOverDeps(deps, depMap, module, Tail(rest),
            IF Head(rest) \in DOMAIN depMap
            THEN DirectOverReverseDeps(deps, module, Head(rest),
                                       depMap[Head(rest)], acc)
            ELSE acc)

\* the first pass: direct circular dependencies
RECURSIVE DirectPass(_, _, _, _)
DirectPass(deps, depMap, mods, acc) ==
    IF mods = <<>> THEN acc
    ELSE DirectPass(deps, depMap, Tail(mods),
            DirectOverDeps(deps, depMap, Head(mods),
                           Adjacent(depMap, Head(mods)), acc))

RECURSIVE JoinPath(_)
JoinPath(cycle) ==
    IF cycle = <<>> THEN ""
    ELSE IF Len(cycle) = 1 THEN Head(cycle)
    ELSE Head(cycle) \o " " \o RightArrow \o " " \o JoinPath(Tail(cycle))

\* a plausible slip: the return to the first module is not rendered
RenderCyclePathOpen(cycle) == JoinPath(cycle)

\* the cyclePath string of the second pass
RenderCyclePath(cycle) == JoinPath(cycle) \o " " \o RightArrow \o " " \o cycle[1]

\* a plausible slip: the module after the next one is taken
NextInCycleSkipping(cycle, i) == cycle[((i + 1) % Len(cycle)) + 1]

\* cycle[(i+1)%len(cycle)], for the 1-based position i
NextInCycle(cycle, i) == cycle[(i % Len(cycle)) + 1]

IndirectFinding(deps, cycle, i) ==
    [ModuleA |-> cycle[i], ModuleB |-> NextInCycle(cycle, i),
     Range |-> RangeToUse(deps, cycle[i], NextInCycle(cycle, i)),
     CyclePath |-> RenderCyclePath(cycle)]

\* the body of the loop of the second pass, for one start module
IndirectReport(deps, depMap, module, acc) ==
    LET r == findCycle(module, depMap)
        cycleKey == normalizeCycle(r.cycle)
    IN  IF ~r.found THEN acc
        ELSE IF cycleKey \in acc.reportedCycles THEN acc
        ELSE [reportedCycles |-> acc.reportedCycles \cup {cycleKey},
              circularDeps |-> acc.circularDeps \o
                  [i \in 1..Len(r.cycle) |-> IndirectFinding(deps, r.cycle, i)],
              cycles |-> Append(acc.cycles, r.cycle)]

\* a plausible slip: the loop over the start modules ends at the first module
\* whose search finds a cycle (break for continue)
RECURSIVE IndirectPassUntilFound(_, _, _, _)
IndirectPassUntilFound(deps, depMap, mods, acc) ==
    IF mods = <<>> THEN acc
    ELSE IF findCycle(Head(mods), depMap).found
    THEN IndirectReport(deps, depMap, Head(mods), acc)
    ELSE IndirectPassUntilFound(deps, depMap, Tail(mods), acc)

\* the second pass: indirect circular dependencies
RECURSIVE IndirectPass(_, _, _, _)
IndirectPass(deps, depMap, mods, acc) ==
    IF mods = <<>> THEN acc
    ELSE IndirectPass(deps, depMap, Tail(mods),
                      IndirectReport(deps, depMap, Head(mods), acc))

DetectRun(deps) ==
    LET depMap == DepMap(deps)
        mods == SortedModules(depMap)
        empty == [reportedCycles |-> {}, circularDeps |-> <<>>, cycles |-> <<>>]
    IN  IndirectPass(deps, depMap, mods, DirectPass(deps, depMap, mods, empty))

detectCircularDependencies(deps) == DetectRun(deps).circularDeps

(***************************************************************************)
(* Expression trees (hclsyntax) and findModuleReferences.                  *)
(***************************************************************************)
NilExpr == [kind |-> "nil"]
LiteralExpr == [kind |-> "LiteralValueExpr"]
TraverseRoot(name) == [step |-> "TraverseRoot", Name |-> name]
TraverseAttr(name) == [step |-> "TraverseAttr", Name |-> name]
TraverseIndex == [step |-> "TraverseIndex", Name |-> ""]
ScopeTraversalExpr(traversal) ==
    [kind |-> "ScopeTraversalExpr", Traversal |-> traversal]
TemplateExpr(parts) == [kind |-> "TemplateExpr", Parts |-> parts]
TupleConsExpr(exprs) == [kind |-> "TupleConsExpr", Exprs |-> exprs]
ObjectConsItem(key, value) == [KeyExpr |-> key, ValueExpr |-> value]
ObjectConsExpr(items) == [kind |-> "ObjectConsExpr", Items |-> items]
FunctionCallExpr(args) == [kind |-> "FunctionCallExpr", Args |-> args]
ConditionalExpr(cond, t, f) ==
    [kind |-> "ConditionalExpr", Condition |-> cond, TrueResult |-> t,
     FalseResult |-> f]
ForExpr(coll, key, val, cond) ==
    [kind |-> "ForExpr", CollExpr |-> coll, KeyExpr |-> key, ValExpr |-> val,
     CondExpr |-> cond]
\* an expression kind the type switch has no case for
BinaryOpExpr(lhs, rhs) == [kind |-> "BinaryOpExpr", LHS |-> lhs, RHS |-> rhs]

\* module.<name>.output
ModuleRef(name) ==
    ScopeTraversalExpr(<<TraverseRoot("module"), TraverseAttr(name),
                         TraverseAttr("output")>>)

\* a plausible slip: the name is not looked up in the known modules
TraversalReferencesUnchecked(traversal, known) ==
    IF Len(traversal) >= 2
       /\ traversal[1].step = "TraverseRoot"
       /\ traversal[1].Name = "module"
       /\ traversal[2].step = "TraverseAttr"
    THEN <<traversal[2].Name>>
    ELSE <<>>

\* the ScopeTraversalExpr case
TraversalReferences(traversal, known) ==
    IF Len(traversal) >= 2
       /\ traversal[1].step = "TraverseRoot"
       /\ traversal[1].Name = "module"
       /\ traversal[2].step = "TraverseAttr"
       /\ traversal[2].Name \in known
    THEN <<traversal[2].Name>>
    ELSE <<>>

RECURSIVE findModuleReferences(_, _)
RECURSIVE ReferencesOfAll(_, _)
RECURSIVE ReferencesOfItems(_, _)

\* a nil sub-expression is skipped
ReferencesOfOptional(e, known) ==
    IF e = NilExpr THEN <<>> ELSE findModuleReferences(e, known)

ReferencesOfAll(exprs, known) ==
    IF exprs = <<>> THEN <<>>
    ELSE findModuleReferences(Head(exprs), known)
         \o ReferencesOfAll(Tail(exprs), known)

ReferencesOfItems(items, known) ==
    IF items = <<>> THEN <<>>
    ELSE ReferencesOfOptional(Head(items).ValueExpr, known)
         \o ReferencesOfItems(Tail(items), known)

findModuleReferences(e, known) ==
    CASE e.kind = "ScopeTraversalExpr" -> TraversalReferences(e.Traversal, known)
      [] e.kind = "TemplateExpr" -> ReferencesOfAll(e.Parts, known)
      [] e.kind = "TupleConsExpr" -> ReferencesOfAll(e.Exprs, known)
      [] e.kind = "ObjectConsExpr" -> ReferencesOfItems(e.Items, known)
      [] e.kind = "FunctionCallExpr" -> ReferencesOfAll(e.Args, known)
      [] e.kind = "ConditionalExpr" ->
            ReferencesOfOptional(e.TrueResult, known)
            \o ReferencesOfOptional(e.FalseResult, known)
      [] e.kind = "ForExpr" ->
            ReferencesOfOptional(e.CollExpr, known)
            \o ReferencesOfOptional(e.KeyExpr, known)
            \o ReferencesOfOptional(e.ValExpr, known)
            \o ReferencesOfOptional(e.CondExpr, known)
      [] OTHER -> <<>>

(***************************************************************************)
(* buildDependencies: the loop body for one attribute of a module block.   *)
(***************************************************************************)
DepKey(moduleName, dep) == moduleName \o "->" \o dep

RECURSIVE AppendDependencies(_, _, _, _)
AppendDependencies(moduleName, refs, range, acc) ==
    IF refs = <<>> THEN acc
    ELSE AppendDependencies(moduleName, Tail(refs), range,
            IF DepKey(moduleName, Head(refs)) \in acc.seenDeps THEN acc
            ELSE [seenDeps |-> acc.seenDeps \cup {DepKey(moduleName, Head(refs))},
                  dependencies |-> Append(acc.dependencies,
                      [From |-> moduleName, To |-> Head(refs),
                       Range |-> range])])

(***************************************************************************)
(* Check: the message of one circular dependency.                          *)
(***************************************************************************)
Message(dep) ==
    IF dep.CyclePath # ""
    THEN "Circular dependency detected between modules: " \o dep.ModuleA
         \o " " \o LeftRightArrow \o " " \o dep.ModuleB \o " (path: " \o dep.CyclePath \o ")"
    ELSE "Circular dependency detected between modules: " \o dep.ModuleA
         \o " " \o LeftRightArrow \o " " \o dep.ModuleB

Issue(dep) == [Message |-> Message(dep), Range |-> dep.Range]

(***************************************************************************)
(* Check as a state machine: collectModules, buildDependencies (one step   *)
(* per attribute of the configuration), detectCircularDependencies and     *)
(* one EmitIssue per circular dependency.                                  *)
(***************************************************************************)
\* the expressions an attribute of the configuration is drawn from
AttrExprs ==
    {LiteralExpr}
    \cup {ModuleRef(n) : n \in Names}
    \cup {TupleConsExpr(<<ModuleRef("a"), ModuleRef("a")>>),
          TupleConsExpr(<<ModuleRef("ab"), ModuleRef("b")>>)}

\* the sets of module names the module blocks of a configuration declare
DeclaredSets == {{}, {"a", "b"}, Names}

Init ==
    /\ pc = "collectModules"
    /\ modules = {}
    /\ dependencies = <<>>
    /\ seenDeps = {}
    /\ line = 0
    /\ circularDeps = <<>>
    /\ cycles = <<>>
    /\ emitIdx = 0
    /\ emitted = <<>>
    /\ err = ""
    /\ expr = NilExpr
    /\ depth = 0
    /\ references = <<>>

\* collectModules: GetFiles succeeds, the module blocks name the modules
CollectModules ==
    /\ pc = "collectModules"
    /\ \E declared \in DeclaredSets : modules' = declared
    /\ pc' = "buildDependencies"
    /\ UNCHANGED <<dependencies, seenDeps, line, circularDeps, cycles, emitIdx,
                   emitted, err, expr, depth, references>>

\* collectModules: GetFiles fails
CollectModulesFails ==
    /\ pc = "collectModules"
    /\ pc' = "error"
    /\ err' = "GetFiles"
    /\ UNCHANGED <<modules, dependencies, seenDeps, line, circularDeps, cycles,
                   emitIdx, emitted, expr, depth, references>>

\* buildDependencies: GetFiles succeeds
BuildDependenciesGetFiles ==
    /\ pc = "buildDependencies"
    /\ pc' = "scan"
    /\ UNCHANGED <<modules, dependencies, seenDeps, line, circularDeps, cycles,
                   emitIdx, emitted, err, expr, depth, references>>

\* buildDependencies: GetFiles fails
BuildDependenciesFails ==
    /\ pc = "buildDependencies"
    /\ pc' = "error"
    /\ err' = "GetFiles"
    /\ UNCHANGED <<modules, dependencies, seenDeps, line, circularDeps, cycles,
                   emitIdx, emitted, expr, depth, references>>

\* buildDependencies: the next attribute of a module block.  line counts the
\* attributes that added a dependency; an attribute that adds none changes
\* nothing.
ScanAttribute ==
    /\ pc = "scan"
    /\ \E moduleName \in modules, e \in AttrExprs :
         LET acc == AppendDependencies(moduleName,
                        findModuleReferences(e, modules), AttrRange(line + 1),
                        [seenDeps |-> seenDeps, dependencies |-> dependencies])
         IN  /\ Len(acc.dependencies) <= MaxDeps
             /\ acc.dependencies # dependencies
             /\ dependencies' = acc.dependencies
             /\ seenDeps' = acc.seenDeps
    /\ line' = line + 1
    /\ UNCHANGED <<pc, modules, circularDeps, cycles, emitIdx, emitted, err,
                   expr, depth, references>>

\* buildDependencies returns, detectCircularDependencies runs
DetectCircularDependencies ==
    /\ pc = "scan"
    /\ LET run == DetectRun(dependencies)
       IN  /\ circularDeps' = run.circularDeps
           /\ cycles' = run.cycles
    /\ emitIdx' = 1
    /\ pc' = "emit"
    /\ UNCHANGED <<modules, dependencies, seenDeps, line, emitted, err, expr,
                   depth, references>>

\* one turn of the reporting loop: EmitIssue succeeds
EmitIssue ==
    /\ pc = "emit"
    /\ emitIdx <= Len(circularDeps)
    /\ emitted' = Append(emitted, Issue(circularDeps[emitIdx]))
    /\ emitIdx' = emitIdx + 1
    /\ UNCHANGED <<pc, modules, dependencies, seenDeps, line, circularDeps,
                   cycles, err, expr, depth, references>>

\* a plausible slip: the issue is recorded although the error is returned
EmitIssueFailsAfterEmitting ==
    /\ pc = "emit"
    /\ emitIdx <= Len(circularDeps)
    /\ emitted' = Append(emitted, Issue(circularDeps[emitIdx]))
    /\ pc' = "error"
    /\ err' = "EmitIssue"
    /\ UNCHANGED <<modules, dependencies, seenDeps, line, circularDeps, cycles,
                   emitIdx, expr, depth, references>>

\* one turn of the reporting loop: EmitIssue fails, Check returns the error
EmitIssueFails ==
    /\ pc = "emit"
    /\ emitIdx <= Len(circularDeps)
    /\ pc' = "error"
    /\ err' = "EmitIssue"
    /\ UNCHANGED <<modules, dependencies, seenDeps, line, circularDeps, cycles,
                   emitIdx, emitted, expr, depth, references>>

\* the reporting loop is over, Check returns nil
CheckReturns ==
    /\ pc = "emit"
    /\ emitIdx > Len(circularDeps)
    /\ pc' = "done"
    /\ UNCHANGED <<modules, dependencies, seenDeps, line, circularDeps, cycles,
                   emitIdx, emitted, err, expr, depth, references>>

Next ==
    \/ CollectModules
    \/ CollectModulesFails
    \/ BuildDependenciesGetFiles
    \/ BuildDependenciesFails
    \/ ScanAttribute
    \/ DetectCircularDependencies
    \/ EmitIssue
    \/ EmitIssueFails
    \/ CheckReturns

Spec == Init /\ [][Next]_vars

(***************************************************************************)
(* findModuleReferences on generated expression trees: a leaf is drawn     *)
(* first, then it is nested, one level per step, in every position of      *)
(* every expression kind.                                                  *)
(***************************************************************************)
Leaves ==
    { ModuleRef("a"), ModuleRef("ab"),
      ScopeTraversalExpr(<<TraverseRoot("module"), TraverseAttr("a")>>),
      ScopeTraversalExpr(<<TraverseRoot("module")>>),
      ScopeTraversalExpr(<<TraverseRoot("var"), TraverseAttr("a"),
                           TraverseAttr("output")>>),
      ScopeTraversalExpr(<<TraverseRoot("module"), TraverseIndex,
                           TraverseAttr("a")>>),
      LiteralExpr }

Siblings == {LiteralExpr, ModuleRef("b")}

KnownSets == {{}, {"a"}, {"b"}, {"a", "ab", "b"}}

InitExtract ==
    /\ pc = "extract"
    /\ modules \in KnownSets
    /\ expr \in Leaves
    /\ depth = 0
    /\ references = findModuleReferences(expr, modules)
    /\ dependencies = <<>>
    /\ seenDeps = {}
    /\ line = 0
    /\ circularDeps = <<>>
    /\ cycles = <<>>
    /\ emitIdx = 0
    /\ emitted = <<>>
    /\ err = ""

\* findModuleReferences is applied to the expression e
Extract(e) ==
    /\ pc = "extract"
    /\ depth < MaxDepth
    /\ expr' = e
    /\ depth' = depth + 1
    /\ references' = findModuleReferences(e, modules)
    /\ UNCHANGED <<pc, modules, dependencies, seenDeps, line, circularDeps,
                   cycles, emitIdx, emitted, err>>

NestInTemplate ==
    \E sib \in Siblings : Extract(TemplateExpr(<<sib, expr>>))

NestInTuple ==
    \E sib \in Siblings : Extract(TupleConsExpr(<<expr, sib>>))

NestInObjectValue ==
    \E sib \in Siblings :
        Extract(ObjectConsExpr(<<ObjectConsItem(sib, LiteralExpr),
                                 ObjectConsItem(LiteralExpr, expr)>>))

NestInObjectKey ==
    \E sib \in Siblings :
        Extract(ObjectConsExpr(<<ObjectConsItem(expr, sib)>>))

NestInFunctionCall ==
    \E sib \in Siblings : Extract(FunctionCallExpr(<<sib, expr>>))

NestInCondition ==
    \E sib \in Siblings : Extract(ConditionalExpr(expr, sib, LiteralExpr))

NestInTrueResult ==
    \E sib \in Siblings : Extract(ConditionalExpr(LiteralExpr, expr, sib))

NestInFalseResult ==
    \E sib \in Siblings : Extract(ConditionalExpr(LiteralExpr, sib, expr))

NestInForColl ==
    \E sib \in Siblings : Extract(ForExpr(expr, NilExpr, sib, NilExpr))

NestInForKey ==
    \E sib \in Siblings : Extract(ForExpr(LiteralExpr, expr, sib, NilExpr))

NestInForVal ==
    \E sib \in Siblings : Extract(ForExpr(sib, NilExpr, expr, NilExpr))

NestInForCond ==
    \E sib \in Siblings : Extract(ForExpr(LiteralExpr, NilExpr, sib, expr))

NestInBinaryOp ==
    \E sib \in Siblings : Extract(BinaryOpExpr(expr, sib))

NextExtract ==
    \/ NestInTemplate
    \/ NestInTuple
    \/ NestInObjectValue
    \/ NestInObjectKey
    \/ NestInFunctionCall
    \/ NestInCondition
    \/ NestInTrueResult
    \/ NestInFalseResult
    \/ NestInForColl
    \/ NestInForKey
    \/ NestInForVal
    \/ NestInForCond
    \/ NestInBinaryOp

SpecExtract == InitExtract /\ [][NextExtract]_vars

(***************************************************************************)
(* detectCircularDependencies on generated graphs: buildDependencies has   *)
(* returned the dependencies of one cycle, or of two cycles that share no  *)
(* module, and of up to MaxExtra further dependencies between the modules; *)
(* each dependency comes from an attribute of its own.                     *)
(***************************************************************************)
\* the sequences of k distinct names of S that start with their smallest name
CyclesOfLength(S, k) ==
    {c : c \in {t \in [1..k -> S] :
                    /\ \A i, j \in 1..k : i # j => t[i] # t[j]
                    /\ \A i \in 2..k : StrLess(t[1], t[i])}}

\* the dependencies m0->m1, m1->m2, ..., mk-1->m0 of the cycle c
EdgesInOrder(c) == [i \in 1..Len(c) |-> <<c[i], c[(i % Len(c)) + 1]>>]

\* the dependencies between two different modules of S
EdgesAmong(S) == {p \in S \X S : p[1] # p[2]}

\* the dependencies from a module of the cycle c to a module of the cycle d
\* and back
EdgesBetween(c, d) ==
    LET C == {c[i] : i \in 1..Len(c)}
        D == {d[i] : i \in 1..Len(d)}
    IN  (C \X D) \cup (D \X C)

\* the subsets of E with at most k elements
RECURSIVE SubsetsUpTo(_, _)
SubsetsUpTo(E, k) ==
    IF k = 0 THEN {{}}
    ELSE LET smaller == SubsetsUpTo(E, k - 1)
         IN  smaller \cup {F \cup {e} : F \in smaller, e \in E}

\* a generated graph before the further dependencies are drawn: the edges of
\* its cycles and the dependencies the further ones are drawn from
CycleGraph(cycleEdges, E) ==
    [edges |-> cycleEdges,
     further |-> E \ {cycleEdges[i] : i \in 1..Len(cycleEdges)}]

\* one cycle of three or four of the modules of Names; the further
\* dependencies are among the modules of Names
OneCycleGraphs ==
    {CycleGraph(EdgesInOrder(c), EdgesAmong(Names)) :
        c \in CyclesOfLength(Names, 3) \cup CyclesOfLength(Names, 4)}

\* two cycles of three modules that share no module; the further
\* dependencies connect the two
TwoCycleGraphs ==
    {CycleGraph(EdgesInOrder(pair[1]) \o EdgesInOrder(pair[2]),
                EdgesBetween(pair[1], pair[2])) :
        pair \in {q \in CyclesOfLength(GraphNames, 3) \X CyclesOfLength(GraphNames, 3) :
                    /\ StrLess(q[1][1], q[2][1])
                    /\ {q[1][i] : i \in 1..3} \cap {q[2][i] : i \in 1..3} = {}}}

\* the dependency list buildDependencies returns for the edges, attribute i
\* on line i
DependenciesOf(edges) ==
    [i \in 1..Len(edges) |->
        [From |-> edges[i][1], To |-> edges[i][2], Range |-> AttrRange(i)]]

InitDetect ==
    /\ pc = "scan"
    /\ modules = GraphNames
    /\ \E g \in OneCycleGraphs \cup TwoCycleGraphs :
         \E F \in SubsetsUpTo(g.further, MaxExtra) :
            LET edges == g.edges \o SetToSeq(F)
            IN  /\ dependencies = DependenciesOf(edges)
                /\ seenDeps = {DepKey(edges[i][1], edges[i][2]) :
                                  i \in 1..Len(edges)}
                /\ line = Len(edges)
    /\ circularDeps = <<>>
    /\ cycles = <<>>
    /\ emitIdx = 0
    /\ emitted = <<>>
    /\ err = ""
    /\ expr = NilExpr
    /\ depth = 0
    /\ references = <<>>

NextDetect == DetectCircularDependencies

SpecDetect == InitDetect /\ [][NextDetect]_vars

(***************************************************************************)
(* Properties.  The graph of a run is read from the dependencies, with no  *)
(* use of the detector's own definitions.                                  *)
(***************************************************************************)
Edges == {<<dependencies[i].From, dependencies[i].To>> :
            i \in 1..Len(dependencies)}

SeqRange(q) == {q[i] : i \in 1..Len(q)}

\* detectCircularDependencies has just returned; dependencies, circularDeps
\* and cycles do not change in the rest of the run
Detected == pc = "emit" /\ emitIdx = 1

\* the modules of S that are left when those without a dependency on a
\* module of S are removed, again and again
RECURSIVE Pruned(_)
Pruned(S) ==
    LET keep == {n \in S : \E m \in S : <<n, m>> \in Edges}
    IN  IF keep = S THEN S ELSE Pruned(keep)

\* some module reaches itself along one or more dependencies
HasCycle == Pruned(Names) # {}

\* the sequences of distinct module names: the cycles a graph on Names can have
ModuleCycles ==
    {c : c \in UNION {{t \in [1..k -> Names] :
                            \A i, j \in 1..k : i # j => t[i] # t[j]} :
                        k \in 1..Cardinality(Names)}}

\* the edges of the cycle c, the last module back to the first included
CycleEdges(c) == {<<c[i], c[(i % Len(c)) + 1]>> : i \in 1..Len(c)}

\* the rendering m0, m1, ..., m0 of the cycle c
PathString(c) == JoinPath(Append(c, c[1]))

Smallest(S) == CHOOSE n \in S : \A m \in S : m = n \/ StrLess(n, m)

\* C1: when the dependencies contain no cycle (no self-reference, no mutual
\* pair, no longer cycle), detectCircularDependencies returns no circular
\* dependency and Check emits no issue.
C1_NoCycleNoFinding ==
    /\ (Detected /\ ~HasCycle) => circularDeps = <<>>
    /\ circularDeps = <<>> => emitted = <<>>

\* a finished run over three dependencies without a cycle
C1_Witness ==
    /\ pc = "done"
    /\ Len(dependencies) = 3
    /\ ~HasCycle
    /\ circularDeps = <<>>

\* C2: when the dependencies contain a cycle of any length,
\* detectCircularDependencies returns at least one circular dependency.
C2_CycleIsReported ==
    (Detected /\ HasCycle) => circularDeps # <<>>

\* a run over a cycle of three modules with no mutual pair and no
\* self-reference, which only the depth-first pass can find
C2_Witness ==
    /\ Detected
    /\ HasCycle
    /\ \A p \in Edges : p[1] # p[2] /\ <<p[2], p[1]>> \notin Edges
    /\ circularDeps # <<>>

\* the positions of the path-free circular dependencies that name the pair A, B
DirectFindingsOf(A, B) ==
    {i \in 1..Len(circularDeps) :
        /\ circularDeps[i].CyclePath = ""
        /\ {circularDeps[i].ModuleA, circularDeps[i].ModuleB} = {A, B}}

\* C3: for every two distinct modules A, B with both dependencies A->B and
\* B->A, exactly one circular dependency with an empty CyclePath names the
\* pair, whatever other dependencies exist; when these two are the only
\* dependencies, it is the whole result.
C3_MutualPairReportedOnce ==
    Detected =>
        \A A, B \in Names :
            (A # B /\ <<A, B>> \in Edges /\ <<B, A>> \in Edges) =>
                /\ Cardinality(DirectFindingsOf(A, B)) = 1
                /\ (Edges = {<<A, B>>, <<B, A>>} => Len(circularDeps) = 1)

\* a run over a mutual pair and a third dependency
C3_Witness ==
    /\ Detected
    /\ Len(dependencies) = 3
    /\ \A p \in Edges : p[1] # p[2]
    /\ \E A, B \in Names :
         /\ A # B /\ <<A, B>> \in Edges /\ <<B, A>> \in Edges
         /\ Cardinality(DirectFindingsOf(A, B)) = 1

\* every module with a dependency has exactly one, on another module, and
\* is depended on: the graph is made of disjoint simple cycles
OneInOneOut ==
    LET from == {p[1] : p \in Edges}
    IN  /\ Cardinality(Edges) = Cardinality(from)
        /\ {p[2] : p \in Edges} = from
        /\ \A p \in Edges : p[1] # p[2]

\* the dependencies are exactly the simple cycle c of three or more modules,
\* c starting at its smallest module
IsSimpleCycle(c) ==
    /\ Len(c) >= 3
    /\ Edges = CycleEdges(c)
    /\ c[1] = Smallest({c[i] : i \in 1..Len(c)})

\* what C4 expects for the cycle c: one circular dependency per edge, in
\* cycle order, all with the path of c
ExpectedForCycle(c) ==
    [i \in 1..Len(c) |->
        [ModuleA |-> c[i], ModuleB |-> c[(i % Len(c)) + 1],
         CyclePath |-> PathString(c)]]

Reported ==
    [i \in 1..Len(circularDeps) |->
        [ModuleA |-> circularDeps[i].ModuleA, ModuleB |-> circularDeps[i].ModuleB,
         CyclePath |-> circularDeps[i].CyclePath]]

\* C4: when the dependencies are exactly one simple cycle m0->m1->...->m0 of
\* k >= 3 distinct modules (then OneInOneOut holds), the result is k circular
\* dependencies, one per edge of the cycle in cycle order from the smallest
\* module m0, all with the CyclePath that lists m0, m1, ..., m0.
C4_SimpleCycleReportedPerEdge ==
    (Detected /\ Len(dependencies) >= 3 /\ OneInOneOut) =>
        \A c \in ModuleCycles : IsSimpleCycle(c) => Reported = ExpectedForCycle(c)

\* a run over the cycle a -> b -> ab -> a, declared in another order
C4_Witness ==
    /\ Detected
    /\ \E c \in ModuleCycles : IsSimpleCycle(c) /\ Reported = ExpectedForCycle(c)
    /\ dependencies[1].From # Smallest(Names)

\* C5: every circular dependency returned names a pair ModuleA -> ModuleB that
\* is a dependency of the input, and every CyclePath is the path of a cycle of
\* distinct modules whose consecutive pairs, the last module back to the first
\* included, are dependencies of the input.
C5_FindingsAreEdges ==
    Detected =>
        \A i \in 1..Len(circularDeps) :
            /\ <<circularDeps[i].ModuleA, circularDeps[i].ModuleB>> \in Edges
            /\ circularDeps[i].CyclePath # "" =>
                  \E c \in ModuleCycles :
                      /\ PathString(c) = circularDeps[i].CyclePath
                      /\ CycleEdges(c) \subseteq Edges
                      /\ <<circularDeps[i].ModuleA, circularDeps[i].ModuleB>>
                            \in CycleEdges(c)

\* a run that reports a cycle of three modules with its path
C5_Witness ==
    /\ Detected
    /\ \E i \in 1..Len(circularDeps), c \in ModuleCycles :
         /\ Len(c) >= 3
         /\ circularDeps[i].CyclePath = PathString(c)
         /\ CycleEdges(c) \subseteq Edges

\* the key normalizeCycle gives every sequence of distinct modules
KeyOf == [t \in ModuleCycles |-> normalizeCycle(t)]

\* the sequences of distinct modules that normalizeCycle gives the key k
CyclesWithKey ==
    [k \in {KeyOf[t] : t \in ModuleCycles} |->
        {t : t \in {u \in ModuleCycles : KeyOf[u] = k}}]

\* the cycle c started at each of its modules
Rotations(c) ==
    {[i \in 1..Len(c) |-> c[((i - 1 + k) % Len(c)) + 1]] : k \in 0..(Len(c) - 1)}

\* t is the cycle c started at another of its modules
IsRotation(c, t) == t \in Rotations(c)

PairBefore(d, e) ==
    \/ StrLess(d.From, e.From)
    \/ d.From = e.From /\ StrLess(d.To, e.To)

RECURSIVE InsertByPair(_, _)
InsertByPair(d, sorted) ==
    IF sorted = <<>> THEN <<d>>
    ELSE IF PairBefore(d, Head(sorted)) THEN <<d>> \o sorted
    ELSE <<Head(sorted)>> \o InsertByPair(d, Tail(sorted))

RECURSIVE SortByPair(_)
SortByPair(deps) ==
    IF deps = <<>> THEN <<>>
    ELSE InsertByPair(Head(deps), SortByPair(Tail(deps)))

Reverse(deps) == [i \in 1..Len(deps) |-> deps[Len(deps) + 1 - i]]

\* C7: the result depends on the set of dependencies only, not on their
\* order: the same dependencies (each with its range) in the order by From
\* and To, and in the reverse of the order they were collected in, give the
\* same circular dependencies in the same order.
C7_OrderIndependent ==
    Detected =>
        /\ circularDeps = detectCircularDependencies(SortByPair(dependencies))
        /\ circularDeps = detectCircularDependencies(Reverse(dependencies))

\* a run that reports a cycle from dependencies collected in an order that
\* is neither the sorted one nor its reverse
C7_Witness ==
    /\ Detected
    /\ Len(circularDeps) >= 3
    /\ \A p \in Edges : p[1] # p[2]
    /\ dependencies # SortByPair(dependencies)
    /\ Reverse(dependencies) # SortByPair(dependencies)

\* the issues of the first n circular dependencies
IssuesBefore(n) == [i \in 1..(n - 1) |-> Issue(circularDeps[i])]

\* C8 as claimed: whenever Check returns an error of a collaborator (GetFiles
\* in either pass, EmitIssue for any circular dependency), no issue has been
\* emitted in the run.
C8_ErrorMeansNothingEmitted ==
    pc = "error" => emitted = <<>>

\* C8 as amended: when Check returns the error of GetFiles, or of EmitIssue for
\* the first circular dependency, no issue has been emitted; when EmitIssue
\* fails for a later one, exactly the issues of the circular dependencies
\* before it have been emitted, in order.
C8_ErrorAfterEarlierIssuesOnly ==
    pc = "error" =>
        /\ err = "GetFiles" => emitted = <<>>
        /\ err = "EmitIssue" =>
              /\ emitIdx \in 1..Len(circularDeps)
              /\ emitted = IssuesBefore(emitIdx)
              /\ emitIdx = 1 => emitted = <<>>

\* EmitIssue fails for the second circular dependency of a run
C8_Witness ==
    /\ pc = "error"
    /\ err = "EmitIssue"
    /\ emitIdx = 2
    /\ \A p \in Edges : p[1] # p[2]
    /\ emitted = <<Issue(circularDeps[1])>>

\* the circular dependencies that name the module A twice, A -> A
SelfFindingsOf(A) ==
    {i \in 1..Len(circularDeps) :
        circularDeps[i].ModuleA = A /\ circularDeps[i].ModuleB = A}

\* C10: a circular dependency carries a CyclePath only when it belongs to a
\* cycle of three or more modules; a cycle of fewer modules, a self-reference
\* A -> A included, is reported once, by the pairwise pass, without a path.
C10_PathOnlyForLongCycles ==
    Detected =>
        /\ \A i \in 1..Len(circularDeps) :
              circularDeps[i].CyclePath # "" =>
                  \E c \in ModuleCycles :
                      Len(c) >= 3 /\ PathString(c) = circularDeps[i].CyclePath
        /\ \A A \in Names :
              <<A, A>> \in Edges =>
                  /\ Cardinality(SelfFindingsOf(A)) = 1
                  /\ \A i \in SelfFindingsOf(A) : circularDeps[i].CyclePath = ""

\* the sub-expressions of e at the positions C9 lists: template parts, tuple
\* elements, object item values, function-call arguments, the two branches
\* of a conditional, and the collection, key, value and filter of a
\* for-expression
CoveredChildren(e) ==
    CASE e.kind = "TemplateExpr" -> SeqRange(e.Parts)
      [] e.kind = "TupleConsExpr" -> SeqRange(e.Exprs)
      [] e.kind = "ObjectConsExpr" -> {it.ValueExpr : it \in SeqRange(e.Items)}
      [] e.kind = "FunctionCallExpr" -> SeqRange(e.Args)
      [] e.kind = "ConditionalExpr" -> {e.TrueResult, e.FalseResult}
      [] e.kind = "ForExpr" -> {e.CollExpr, e.KeyExpr, e.ValExpr, e.CondExpr}
      [] OTHER -> {}

\* the sub-expressions of e at the other positions
OtherChildren(e) ==
    CASE e.kind = "ObjectConsExpr" -> {it.KeyExpr : it \in SeqRange(e.Items)}
      [] e.kind = "ConditionalExpr" -> {e.Condition}
      [] e.kind = "BinaryOpExpr" -> {e.LHS, e.RHS}
      [] OTHER -> {}

\* e and the expressions below it that are reached through listed positions
RECURSIVE CoveredPositions(_)
CoveredPositions(e) ==
    {e} \cup UNION {CoveredPositions(ch) : ch \in CoveredChildren(e)}

CoveredKinds ==
    {"ScopeTraversalExpr", "TemplateExpr", "TupleConsExpr", "ObjectConsExpr",
     "FunctionCallExpr", "ConditionalExpr", "ForExpr", "LiteralValueExpr", "nil"}

\* no expression of another kind occurs anywhere in e
RECURSIVE BuiltFromCoveredShapes(_)
BuiltFromCoveredShapes(e) ==
    /\ e.kind \in CoveredKinds
    /\ \A ch \in CoveredChildren(e) \cup OtherChildren(e) :
          BuiltFromCoveredShapes(ch)

\* e is a traversal rooted at module whose first step is the attribute m
RefersTo(e, m) ==
    /\ e.kind = "ScopeTraversalExpr"
    /\ Len(e.Traversal) >= 2
    /\ e.Traversal[1] = TraverseRoot("module")
    /\ e.Traversal[2] = TraverseAttr(m)

\* C9: for an expression tree built from the covered shapes, nested to any
\* depth, findModuleReferences returns the module name m if and only if m is
\* a known module and a traversal rooted at module whose first step is the
\* attribute m occurs at one of the listed positions; with no such traversal
\* the result is empty.
C9_ReferencesAreCoveredTraversals ==
    BuiltFromCoveredShapes(expr) =>
        LET expected == {m \in modules :
                            \E n \in CoveredPositions(expr) : RefersTo(n, m)}
        IN  /\ SeqRange(references) = expected
            /\ expected = {} => references = <<>>

\* a known module referenced two levels down, next to a reference to a
\* module that is not known
C9_Witness ==
    /\ depth = 2
    /\ BuiltFromCoveredShapes(expr)
    /\ references = <<"a">>
    /\ ~RefersTo(expr, "a")
    /\ \A ch \in CoveredChildren(expr) : ~RefersTo(ch, "a")
    /\ \E n \in CoveredPositions(expr) : RefersTo(n, "b")

(***************************************************************************)
(* Several cycles in one graph.                                            *)
(***************************************************************************)
\* the cycles of three modules a graph on GraphNames can have, each started
\* at its smallest module
GraphTriples == CyclesOfLength(GraphNames, 3)

\* the modules n depends on
DependenciesFrom(n) == {p[2] : p \in {q \in Edges : q[1] = n}}

\* path continued along the dependencies while every module has exactly one:
\* the cycle when the walk comes back to its first module, <<>> otherwise
RECURSIVE FollowOnlyDependency(_)
FollowOnlyDependency(path) ==
    LET out == DependenciesFrom(path[Len(path)])
    IN  IF Cardinality(out) # 1 THEN <<>>
        ELSE LET next == CHOOSE m \in out : TRUE
             IN  IF next = path[1] THEN path
                 ELSE IF next \in SeqRange(path) THEN <<>>
                 ELSE FollowOnlyDependency(Append(path, next))

\* the cycle through n whose modules have no dependency but their edge in the
\* cycle, <<>> when there is none
ClosedCycle(n) == FollowOnlyDependency(<<n>>)

\* the cycle c is reported from one of its modules: one circular dependency
\* per edge of c, and no other, carries the path of that rotation of c
ReportedWithPath(c) ==
    \E t \in Rotations(c) :
        /\ SeqRange(ExpectedForCycle(t)) \subseteq SeqRange(Reported)
        /\ Cardinality({j \in 1..Len(Reported) :
                            Reported[j].CyclePath = PathString(t)}) = Len(t)

\* C11 as stated: when the graph contains cycles of three or more modules
\* that pairwise share no module, every one of them is reported, one
\* circular dependency per edge with its CyclePath, whatever further
\* dependencies connect the cycles.
C11_DisjointCyclesAllReported ==
    Detected =>
        \A c, d \in GraphTriples :
            (/\ SeqRange(c) \cap SeqRange(d) = {}
             /\ CycleEdges(c) \subseteq Edges
             /\ CycleEdges(d) \subseteq Edges) =>
                ReportedWithPath(c) /\ ReportedWithPath(d)

\* C11: every cycle of three or more modules whose modules have no dependency
\* but their edge in the cycle is reported, one circular dependency per edge
\* with its CyclePath, whatever other cycles the graph has and whatever
\* dependencies lead into the cycle from other modules.
C11_CyclesWithoutOtherDependenciesReported ==
    Detected =>
        \A n \in GraphNames :
            Len(ClosedCycle(n)) >= 3 => ReportedWithPath(ClosedCycle(n))

\* a run over two cycles that share no module, with a dependency from the
\* first into the second: both are reported, six circular dependencies
C11_Witness ==
    /\ Detected
    /\ \E c, d \in GraphTriples :
         /\ SeqRange(c) \cap SeqRange(d) = {}
         /\ CycleEdges(c) \subseteq Edges
         /\ ClosedCycle(d[1]) = d
         /\ \E p \in Edges : p[1] \in SeqRange(c) /\ p[2] \in SeqRange(d)
         /\ ReportedWithPath(c)
         /\ ReportedWithPath(d)
    /\ Len(circularDeps) = 6

\* the cycles of three or more modules a graph on GraphNames can have, each
\* started at its smallest module
GraphCycles ==
    UNION {CyclesOfLength(GraphNames, k) : k \in 3..Cardinality(GraphNames)}

\* two different modules depend on each other
HasMutualPair ==
    \E p \in Edges : p[1] # p[2] /\ <<p[2], p[1]>> \in Edges

\* C12 as stated: when the graph contains a simple cycle of three or more
\* modules in addition to a mutual pair, the longer cycle is still reported
\* with its CyclePath.
C12_LongerCycleReportedBesideMutualPair ==
    (Detected /\ HasMutualPair) =>
        \A c \in GraphCycles :
            CycleEdges(c) \subseteq Edges => ReportedWithPath(c)

\* the paths a CyclePath of two modules would have
PairPaths == {PathString(<<p[1], p[2]>>) : p \in GraphNames \X GraphNames}

\* the search result r, when it is a cycle of three or more modules, is
\* reported
LongerCycleReported(r) ==
    (r.found /\ Len(r.cycle) >= 3) => ReportedWithPath(r.cycle)

\* every search of the depth-first pass over depMap that returns a cycle of
\* three or more modules has it reported
SearchesReported(depMap) ==
    \A m \in DOMAIN depMap : LongerCycleReported(findCycle(m, depMap))

\* C12: the pairwise pass suppresses in the depth-first pass the mutual pairs
\* and nothing else: every cycle of three or more modules that findCycle
\* returns for some start module is reported with its CyclePath, whatever
\* mutual pairs the graph has, and no CyclePath is the path of a mutual pair.
C12_FoundLongerCyclesReported ==
    Detected =>
        /\ SearchesReported(DepMap(dependencies))
        /\ \A i \in 1..Len(circularDeps) :
              circularDeps[i].CyclePath \notin PairPaths

\* a run over a cycle of three modules two of which also form a mutual pair:
\* the pair is reported without a path and the cycle with its path
C12_Witness ==
    /\ Detected
    /\ HasMutualPair
    /\ \E m \in DOMAIN DepMap(dependencies) :
         LET r == findCycle(m, DepMap(dependencies))
         IN  /\ r.found
             /\ Len(r.cycle) >= 3
             /\ ReportedWithPath(r.cycle)
             /\ \E i \in 1..Len(circularDeps) :
                   /\ circularDeps[i].CyclePath = ""
                   /\ circularDeps[i].ModuleA \in SeqRange(r.cycle)
                   /\ circularDeps[i].ModuleB \in SeqRange(r.cycle)
    /\ Len(dependencies) = 4

====
